---- MODULE Spec2Model ----
(***************************************************************************)
(* ReferenceInput (packages/react-admin/src/mui/input/ReferenceInput.js):  *)
(* the component that keeps the referenced record and the list of matching *)
(* candidates fetched.  The state is one component instance: this.props,   *)
(* this.params, the lodash debounce timer around setFilter, and the place  *)
(* of the instance in React's lifecycle.  History variables record what    *)
(* the last handler dispatched to the store.                               *)
(***************************************************************************)
EXTENDS Integers, Sequences, FiniteSets, TLC

VARIABLES
    phase,          \* "constructed" | "rendered" | "mounted" | "updating" | "failed" | "unmounted"
    props,          \* this.props
    params,         \* this.params
    timerPending,   \* debouncedSetFilter has a timer running
    elapsed,        \* ms since the last call of debouncedSetFilter (capped at DebounceWait)
    lastArgs,       \* the argument of the last call of debouncedSetFilter
    ev,             \* history: the last handler that ran, with its argument
    calls,          \* history: the fetch methods the last handler invoked, in order
    out,            \* history: the requests the last handler dispatched, in order
    dispatched,     \* history: some request has been dispatched by this instance
    burstFirst,     \* history: the raw value of the first call of the burst under way
    lastMatching    \* history: pagination and sort of the latest crudGetMatching dispatched

vars == <<phase, props, params, timerPending, elapsed, lastArgs, ev, calls, out,
          dispatched, burstFirst, lastMatching>>

----------------------------------------------------------------------------
(* Bounds and program constants *)

DebounceWait == 500         \* debounce(this.setFilter.bind(this), 500)
DefaultPerPage == 25        \* defaultProps.perPage
TickMs == 250               \* granularity of the clock

----------------------------------------------------------------------------
(* JavaScript values: strings compare by content, objects by identity *)

Undefined == [t |-> "undefined"]
Null == [t |-> "null"]
Str(s) == [t |-> "string", s |-> s]
Obj(ref, v) == [t |-> "object", ref |-> ref, v |-> v]

\* a === b
StrictEqual(a, b) ==
    /\ a.t = b.t
    /\ CASE a.t = "string" -> a.s = b.s
         [] a.t = "object" -> a.ref = b.ref
         [] OTHER -> TRUE

\* if (a)
Truthy(a) ==
    CASE a.t = "string" -> a.s # ""
      [] a.t = "object" -> TRUE
      [] OTHER -> FALSE

\* { ...a, ...b }
Spread(a, b) ==
    [k \in (DOMAIN a) \cup (DOMAIN b) |-> IF k \in DOMAIN b THEN b[k] ELSE a[k]]

EmptyObject == [k \in {} |-> ""]

Min(a, b) == IF a < b THEN a ELSE b

----------------------------------------------------------------------------
(* The values the parent and the child hand to the component *)

RecordIds == {1, 2}
InputValues == {Undefined, Str(""), Str("7")}
\* the parent's JSX: reference, filter and filterToQuery come together.
\* filter is defaultProps' {} or a permanent filter that also sets q;
\* filterToQuery is the default or the doc comment's custom mapping
Parents == {[reference |-> "posts", filter |-> Obj(30, EmptyObject), filterToQuery |-> "default"],
            [reference |-> "tags", filter |-> Obj(31, [is_published |-> "true", q |-> "fixed"]),
             filterToQuery |-> "title"]}
ChildrenCounts == {0, 1, 2}
PerPages == {10, DefaultPerPage}
DefaultSort == Obj(10, [field |-> "id", order |-> "DESC"])

\* what the child passes to setFilter, setSort, setPagination
SearchTexts == {Str("a"), Str("b")}
SortObjects == {Obj(11, [field |-> "id", order |-> "DESC"]),
                Obj(12, [field |-> "name", order |-> "ASC"])}
PaginationObjects == {Obj(21, [page |-> 1, perPage |-> DefaultPerPage]),
                      Obj(22, [page |-> 2, perPage |-> DefaultPerPage])}

MakeProps(id, value, parent, children, perPage) ==
    [record |-> [id |-> id],
     input |-> [value |-> value],
     reference |-> parent.reference,
     resource |-> "comments",
     source |-> "post_id",
     filter |-> parent.filter,
     filterToQuery |-> parent.filterToQuery,
     perPage |-> perPage,
     sort |-> DefaultSort,
     children |-> children]

AllProps(perPages) ==
    {MakeProps(id, value, parent, children, perPage) :
        id \in RecordIds, value \in InputValues, parent \in Parents,
        children \in ChildrenCounts, perPage \in perPages}

----------------------------------------------------------------------------
(* The methods of ReferenceInput.  A method is a function of this.props and *)
(* this.params to: the new this.params, the fetch methods it invoked, the   *)
(* requests it dispatched, and whether it threw.                            *)

Effects(prm, c, o, threw) == [params |-> prm, calls |-> c, out |-> o, threw |-> threw]

Then(a, b) == Effects(b.params, a.calls \o b.calls, a.out \o b.out, a.threw \/ b.threw)

referenceSource(resource, source) == resource \o "@" \o source

\* props.filterToQuery(searchText)
filterToQuery(f, searchText) ==
    CASE f = "default" -> [q |-> searchText.s]
      [] f = "title" -> [title |-> searchText.s]

\* the object filterToQuery returns; the search text it is compared with
\* is a string, so no comparison ever reads its identity
QueryObject(v) == Obj(40, v)

\* (props = this.props) => ...
DefaultTo(p, this) == IF p = Undefined THEN this ELSE p

\* fetchReference without its `if (id)`
fetchReferenceUnguarded(p, this, prm) ==
    LET q == DefaultTo(p, this)
    IN  Effects(prm, <<"fetchReference">>,
                <<[call |-> "crudGetOne", reference |-> q.reference, id |-> q.input.value,
                   basePath |-> Null, refresh |-> FALSE]>>,
                FALSE)

fetchReference(p, this, prm) ==
    LET q == DefaultTo(p, this)
        id == q.input.value
    IN  Effects(prm, <<"fetchReference">>,
                IF Truthy(id)
                THEN <<[call |-> "crudGetOne", reference |-> q.reference, id |-> id,
                        basePath |-> Null, refresh |-> FALSE]>>
                ELSE <<>>,
                FALSE)

fetchOptions(p, this, prm) ==
    LET q == DefaultTo(p, this)
    IN  Effects(prm, <<"fetchOptions">>,
                <<[call |-> "crudGetMatching", reference |-> q.reference,
                   relatedTo |-> referenceSource(q.resource, q.source),
                   pagination |-> prm.pagination, sort |-> prm.sort,
                   filter |-> Spread(q.filter.v, prm.filter.v)]>>,
                FALSE)

fetchReferenceAndOptions(p, this, prm) ==
    Then(fetchReference(p, this, prm), fetchOptions(p, this, prm))

\* new ReferenceInput(props)
constructor(p) ==
    [pagination |-> Obj(20, [page |-> 1, perPage |-> p.perPage]),
     sort |-> p.sort,
     filter |-> p.filter]

Nothing(prm) == Effects(prm, <<>>, <<>>, FALSE)

\* componentWillReceiveProps that forgets to hand nextProps on
componentWillReceivePropsStale(nextProps, this, prm) ==
    IF this.record.id # nextProps.record.id
    THEN fetchReferenceAndOptions(Undefined, this, prm)
    ELSE IF ~StrictEqual(this.input.value, nextProps.input.value)
         THEN fetchReference(Undefined, this, prm)
         ELSE Nothing(prm)

\* componentWillReceiveProps that refetches everything when the value changes
componentWillReceivePropsBoth(nextProps, this, prm) ==
    IF this.record.id # nextProps.record.id
    THEN fetchReferenceAndOptions(nextProps, this, prm)
    ELSE IF ~StrictEqual(this.input.value, nextProps.input.value)
         THEN fetchReferenceAndOptions(nextProps, this, prm)
         ELSE Nothing(prm)

componentWillReceiveProps(nextProps, this, prm) ==
    IF this.record.id # nextProps.record.id
    THEN fetchReferenceAndOptions(nextProps, this, prm)
    ELSE IF ~StrictEqual(this.input.value, nextProps.input.value)
         THEN fetchReference(nextProps, this, prm)
         ELSE Nothing(prm)

\* setFilter that merges the query into the filter it already holds
setFilterMerging(filter, this, prm) ==
    IF ~StrictEqual(filter, prm.filter)
    THEN LET next == [prm EXCEPT !.filter =
                         QueryObject(Spread(prm.filter.v, filterToQuery(this.filterToQuery, filter)))]
         IN  Then(Nothing(next), fetchOptions(Undefined, this, next))
    ELSE Nothing(prm)

setFilter(filter, this, prm) ==
    IF ~StrictEqual(filter, prm.filter)
    THEN LET next == [prm EXCEPT !.filter = QueryObject(filterToQuery(this.filterToQuery, filter))]
         IN  Then(Nothing(next), fetchOptions(Undefined, this, next))
    ELSE Nothing(prm)

\* this.param: the constructor assigns this.params, nothing assigns this.param
ThisParam == Undefined

setPagination(pagination, this, prm) ==
    IF ThisParam = Undefined
    THEN \* TypeError: cannot read property 'pagination' of undefined
         Effects(prm, <<>>, <<>>, TRUE)
    ELSE IF ~StrictEqual(pagination, ThisParam.pagination)
         THEN \* this.param.pagination = pagination leaves this.params alone
              Then(Nothing(prm), fetchOptions(Undefined, this, prm))
         ELSE Nothing(prm)

setSort(sort, this, prm) ==
    IF ~StrictEqual(sort, prm.sort)
    THEN LET next == [prm EXCEPT !.sort = sort]
         IN  Then(Nothing(next), fetchOptions(Undefined, this, next))
    ELSE Nothing(prm)

\* render that only refuses more than one child
renderAtMostOne(this) == Effects(Undefined, <<>>, <<>>, this.children > 1)

\* React.Children.count(children) !== 1  =>  throw
render(this) == Effects(Undefined, <<>>, <<>>, this.children # 1)

\* a timer that runs out one tick after the call
TimerDueEarly(ms) == ms > 0

\* the timer of debounce(setFilter, 500) may call setFilter
TimerDue(ms) == ms >= DebounceWait

----------------------------------------------------------------------------
(* History *)

Matching(o) == SelectSeq(o, LAMBDA r : r.call = "crudGetMatching")

Record(e) ==
    /\ calls' = e.calls
    /\ out' = e.out
    /\ dispatched' = (dispatched \/ e.out # <<>>)
    /\ lastMatching' = IF Matching(e.out) # <<>>
                       THEN LET r == Matching(e.out)[Len(Matching(e.out))]
                            IN  [pagination |-> r.pagination, sort |-> r.sort]
                       ELSE lastMatching

----------------------------------------------------------------------------
(* The steps: React's lifecycle, the child's calls, the clock *)

Init ==
    /\ phase = "constructed"
    /\ props \in AllProps(PerPages)
    /\ params = constructor(props)
    /\ timerPending = FALSE
    /\ elapsed = 0
    /\ lastArgs = Undefined
    /\ ev = [kind |-> "constructor"]
    /\ calls = <<>>
    /\ out = <<>>
    /\ dispatched = FALSE
    /\ burstFirst = Undefined
    /\ lastMatching = Undefined

\* React renders after the constructor and after componentWillReceiveProps;
\* an error thrown by render tears the tree down
Render ==
    /\ phase \in {"constructed", "updating"}
    /\ LET e == render(props)
       IN  /\ phase' = IF e.threw THEN "failed"
                       ELSE IF phase = "constructed" THEN "rendered" ELSE "mounted"
           /\ ev' = [kind |-> "render", initial |-> (phase = "constructed"), threw |-> e.threw]
           /\ Record(e)
    /\ UNCHANGED <<props, params, timerPending, elapsed, lastArgs, burstFirst>>

ComponentDidMount ==
    /\ phase = "rendered"
    /\ LET e == fetchReferenceAndOptions(Undefined, props, params)
       IN  /\ params' = e.params
           /\ Record(e)
    /\ phase' = "mounted"
    /\ ev' = [kind |-> "componentDidMount"]
    /\ UNCHANGED <<props, timerPending, elapsed, lastArgs, burstFirst>>

\* a parent re-render: componentWillReceiveProps(nextProps), then this.props = nextProps
ReceiveProps ==
    /\ phase = "mounted"
    /\ \E nextProps \in AllProps({props.perPage}) :
        LET e == componentWillReceiveProps(nextProps, props, params)
        IN  /\ params' = e.params
            /\ Record(e)
            /\ props' = nextProps
            /\ ev' = [kind |-> "componentWillReceiveProps",
                      idChanged |-> (props.record.id # nextProps.record.id),
                      valueChanged |-> (props.input.value # nextProps.input.value)]
    /\ phase' = "updating"
    /\ UNCHANGED <<timerPending, elapsed, lastArgs, burstFirst>>

\* the child calls props.setFilter, which is this.debouncedSetFilter
CallDebouncedSetFilter ==
    /\ phase = "mounted"
    /\ \E searchText \in SearchTexts :
        /\ lastArgs' = searchText
        /\ burstFirst' = (IF timerPending THEN burstFirst ELSE searchText)
        /\ ev' = [kind |-> "debouncedSetFilter", arg |-> searchText]
    /\ timerPending' = TRUE
    /\ elapsed' = 0
    /\ Record(Nothing(params))
    /\ UNCHANGED <<phase, props, params>>

Tick ==
    /\ timerPending
    /\ phase \in {"mounted", "unmounted", "failed"}
    /\ elapsed < DebounceWait
    /\ elapsed' = Min(elapsed + TickMs, DebounceWait)
    /\ UNCHANGED <<phase, props, params, timerPending, lastArgs, ev, calls, out,
                   dispatched, burstFirst, lastMatching>>

\* nothing cancels the timer: it runs out whatever became of the component
TimerExpired ==
    /\ timerPending
    /\ phase \in {"mounted", "unmounted", "failed"}
    /\ TimerDue(elapsed)
    /\ LET e == setFilter(lastArgs, props, params)
       IN  /\ params' = e.params
           /\ Record(e)
           /\ ev' = [kind |-> "setFilter", arg |-> lastArgs, quiet |-> elapsed,
                     first |-> burstFirst,
                     same |-> (filterToQuery(props.filterToQuery, lastArgs) = params.filter.v),
                     before |-> params]
    /\ timerPending' = FALSE
    /\ lastArgs' = Undefined
    /\ burstFirst' = Undefined
    /\ UNCHANGED <<phase, props, elapsed>>

CallSetSort ==
    /\ phase = "mounted"
    /\ \E sort \in SortObjects :
        LET e == setSort(sort, props, params)
        IN  /\ params' = e.params
            /\ Record(e)
            /\ ev' = [kind |-> "setSort", arg |-> sort, before |-> params]
    /\ UNCHANGED <<phase, props, timerPending, elapsed, lastArgs, burstFirst>>

CallSetPagination ==
    /\ phase = "mounted"
    /\ \E pagination \in PaginationObjects :
        LET e == setPagination(pagination, props, params)
        IN  /\ params' = e.params
            /\ Record(e)
            /\ ev' = [kind |-> "setPagination", arg |-> pagination, before |-> params,
                      threw |-> e.threw]
    /\ UNCHANGED <<phase, props, timerPending, elapsed, lastArgs, burstFirst>>

\* the class has no componentWillUnmount
Unmount ==
    /\ phase = "mounted"
    /\ phase' = "unmounted"
    /\ ev' = [kind |-> "unmount"]
    /\ Record(Nothing(params))
    /\ UNCHANGED <<props, params, timerPending, elapsed, lastArgs, burstFirst>>

Next ==
    \/ Render
    \/ ComponentDidMount
    \/ ReceiveProps
    \/ CallDebouncedSetFilter
    \/ Tick
    \/ TimerExpired
    \/ CallSetSort
    \/ CallSetPagination
    \/ Unmount

Spec == Init /\ [][Next]_vars

----------------------------------------------------------------------------
(* The requests the claims speak of, written out *)

GetOne(reference, id) ==
    [call |-> "crudGetOne", reference |-> reference, id |-> id, basePath |-> Null,
     refresh |-> FALSE]

GetMatching(reference, relatedTo, pagination, sort, filter) ==
    [call |-> "crudGetMatching", reference |-> reference, relatedTo |-> relatedTo,
     pagination |-> pagination, sort |-> sort, filter |-> filter]

NonEmpty(v) == v.t = "string" /\ v.s # ""

GetOneIfNonEmpty(p) ==
    IF NonEmpty(p.input.value) THEN <<GetOne(p.reference, p.input.value)>> ELSE <<>>

CacheKey(p) == p.resource \o "@" \o p.source

\* the query the search text stands for under the filterToQuery prop of p
QueryFor(p, text) ==
    IF p.filterToQuery = "default" THEN [q |-> text.s] ELSE [title |-> text.s]

IsReceiveProps == ev.kind = "componentWillReceiveProps"

----------------------------------------------------------------------------
(* Claims *)

\* C1: a burst of debouncedSetFilter calls, each less than 500ms after the one
\* before, dispatches nothing while it lasts; setFilter runs only once 500ms
\* have passed since the last call and can run then; it ends the burst and
\* dispatches exactly one crudGetMatching, whose filter is the prop-level
\* filter overlaid by filterToQuery of the last-supplied value.
C1_DebounceCollapsesToLast ==
    /\ ev.kind = "debouncedSetFilter" => (out = <<>> /\ timerPending)
    /\ (timerPending /\ elapsed >= DebounceWait /\ phase # "updating") => ENABLED TimerExpired
    /\ ev.kind = "setFilter" =>
        /\ ev.quiet >= DebounceWait
        /\ ~timerPending
        /\ Len(out) = 1
        /\ out[1].call = "crudGetMatching"
        /\ out[1].filter = Spread(props.filter.v, QueryFor(props, ev.arg))

C1_Witness ==
    /\ ev.kind = "setFilter"
    /\ ev.first = Str("a")
    /\ ev.arg = Str("b")
    /\ Len(out) = 1
    /\ out[1].filter = [q |-> "b"]

\* C2: setPagination(p) with p not identical to the current pagination stores p
\* and dispatches at once exactly one crudGetMatching carrying p; with the
\* identical object it dispatches nothing.
C2_SetPaginationFetches ==
    ev.kind = "setPagination" =>
        IF ev.arg.ref = ev.before.pagination.ref
        THEN out = <<>>
        ELSE /\ params.pagination = ev.arg
             /\ Len(out) = 1
             /\ out[1].call = "crudGetMatching"
             /\ out[1].pagination = ev.arg

\* C3: a prop update that changes record.id and keeps input.value invokes
\* fetchReference and fetchOptions once each, both on the new props: the
\* crudGetOne (if the value is non-empty) and the crudGetMatching carry the new
\* reference, and the crudGetMatching the new prop-level filter.
C3_RecordChangeFetchesBoth ==
    (IsReceiveProps /\ ev.idChanged /\ ~ev.valueChanged) =>
        /\ calls = <<"fetchReference", "fetchOptions">>
        /\ out = GetOneIfNonEmpty(props)
                 \o <<GetMatching(props.reference, CacheKey(props), params.pagination,
                                  params.sort, Spread(props.filter.v, params.filter.v))>>

C3_Witness ==
    /\ IsReceiveProps /\ ev.idChanged /\ ~ev.valueChanged
    /\ Len(out) = 2
    /\ out[1].call = "crudGetOne"
    /\ out[2].reference = "tags"
    /\ dispatched

\* C4: a prop update that changes input.value and keeps record.id invokes
\* fetchReference only, on the new value, and dispatches no crudGetMatching; an
\* update that changes neither dispatches nothing.
C4_ValueChangeFetchesReferenceOnly ==
    (IsReceiveProps /\ ~ev.idChanged) =>
        IF ev.valueChanged
        THEN /\ calls = <<"fetchReference">>
             /\ Matching(out) = <<>>
             /\ out = GetOneIfNonEmpty(props)
        ELSE calls = <<>> /\ out = <<>>

C4_Witness ==
    /\ IsReceiveProps /\ ~ev.idChanged /\ ev.valueChanged
    /\ out = <<GetOne(props.reference, Str("7"))>>

\* C5: setFilter(raw) whose filterToQuery(raw) equals the filter already
\* applied dispatches no request and leaves this.params as it was.
C5_SameFilterNotRefetched ==
    (ev.kind = "setFilter" /\ ev.same) => (out = <<>> /\ params = ev.before)

\* C6 as stated: a render with zero or two or more children fails before any
\* request has been dispatched, on the first render and on every later one.
C6_RenderFailsBeforeAnyFetch ==
    (ev.kind = "render" /\ props.children # 1) => (ev.threw /\ ~dispatched)

\* C6 amended: a render with zero or two or more children fails, so a component
\* that is rendered has exactly one child.  When the first render fails nothing
\* has been dispatched; when a later render fails, the requests of mount and of
\* the componentWillReceiveProps before it have been dispatched already.
C6_RenderFailsFirstBeforeFetch ==
    /\ phase \in {"rendered", "mounted", "unmounted"} => props.children = 1
    /\ (ev.kind = "render" /\ props.children # 1) => (ev.threw /\ phase = "failed")
    /\ (ev.kind = "render" /\ ev.threw) => (ev.initial <=> ~dispatched)

C6_Witness ==
    /\ ev.kind = "render" /\ ev.threw /\ ev.initial
    /\ props.children = 0
    /\ phase = "failed"

\* C7: construction dispatches nothing.  Mount dispatches exactly one
\* crudGetMatching with page 1, the perPage prop, the sort prop and the
\* prop-level filter, preceded by crudGetOne(reference, input.value, null, false)
\* if and only if input.value is non-empty; with an empty or absent value
\* neither mount nor a prop update dispatches a crudGetOne.
C7_MountFetches ==
    /\ phase \in {"constructed", "rendered"} => (~dispatched /\ out = <<>>)
    /\ ev.kind = "componentDidMount" =>
        /\ out = GetOneIfNonEmpty(props)
                 \o <<GetMatching(props.reference, CacheKey(props), params.pagination,
                                  props.sort, props.filter.v)>>
        /\ params.pagination.v = [page |-> 1, perPage |-> props.perPage]
    /\ (ev.kind = "componentDidMount" \/ IsReceiveProps) =>
        (~NonEmpty(props.input.value) =>
            \A i \in 1..Len(out) : out[i].call # "crudGetOne")

C7_Witness ==
    /\ ev.kind = "componentDidMount"
    /\ Len(out) = 2
    /\ out[1] = GetOne("tags", Str("7"))
    /\ out[2].pagination.v = [page |-> 1, perPage |-> 10]

\* C8: the local filter setFilter(text) applies is filterToQuery(text) and
\* nothing else: {q: text} under the default mapping, the custom mapping's
\* object under a custom one, and the request's filter is the prop-level
\* filter overlaid by it.
C8_LocalFilterIsFilterToQuery ==
    (ev.kind = "setFilter" /\ out # <<>>) =>
        /\ params.filter.v = QueryFor(props, ev.arg)
        /\ out[1].filter = Spread(props.filter.v, QueryFor(props, ev.arg))
        /\ props.filterToQuery = "default" => out[1].filter.q = ev.arg.s
        /\ props.filterToQuery # "default" =>
            /\ DOMAIN params.filter.v = {"title"}
            /\ ("q" \in DOMAIN out[1].filter) => ("q" \in DOMAIN props.filter.v)

C8_Witness ==
    /\ ev.kind = "setFilter" /\ out # <<>>
    /\ props.filterToQuery = "title"
    /\ ev.before.filter.v = [q |-> "a"]
    /\ params.filter.v = [title |-> "b"]

\* C9: every crudGetMatching dispatched carries the whole current parameter
\* set (key resource@source, this.params' pagination and sort, the prop-level
\* filter overlaid by the local one), and so the request dispatched last
\* carries the value each setter was last given.
C9_LatestRequestReflectsSetters ==
    /\ \A i \in 1..Len(out) :
        out[i].call = "crudGetMatching" =>
            out[i] = GetMatching(props.reference, CacheKey(props), params.pagination,
                                 params.sort, Spread(props.filter.v, params.filter.v))
    /\ ev.kind = "setSort" => lastMatching.sort = ev.arg
    /\ ev.kind = "setPagination" => lastMatching.pagination = ev.arg
    /\ ev.kind = "setFilter" =>
        /\ Len(out) = 1
        /\ out[1].filter = Spread(props.filter.v, QueryFor(props, ev.arg))

\* C10: once the component is unmounted it dispatches no request: a
\* debouncedSetFilter call made less than 500ms before unmount has no effect.
C10_NoDispatchAfterUnmount ==
    phase = "unmounted" => out = <<>>

====
